---- MODULE Spec2Model ----
(***************************************************************************)
(* smart-home-bot: the LINE webhook dispatcher (src/main.py), the durable  *)
(* HandleTextMessage workflow (src/workflow.py and the guardrail/agent     *)
(* variant described in spec.md section 4.2) and the reply activities      *)
(* (src/activity/reply.py), together with the two collaborators they talk  *)
(* to: the Temporal engine (workflow ids, retry policy) and the messaging  *)
(* provider (single-use reply tokens).                                     *)
(* The home-automation activities (src/activity/homeassistant.py) and the  *)
(* startup and shutdown of the application (lifespan in src/main.py) are   *)
(* modelled as well.                                                       *)
(***************************************************************************)
EXTENDS Integers, Sequences, FiniteSets, TLC

VARIABLES
    variant,   \* which HandleTextMessageWorkflow the worker registers
    req,       \* the POST /callback request being handled
    nreq,      \* requests received so far
    execs,     \* workflow executions known to the engine, in start order
    delivered, \* per reply token, the requests the messaging provider accepted
    published, \* the messages the MQTT broker accepted, in order
    ha,        \* the last call of a HomeAssistantActivity method and its result
    life,      \* lifespan of the application: its position, the worker, the clients
    sent       \* the last reply activity called on its own: input, request, result

vars == <<variant, req, nreq, execs, delivered, published, ha, life, sent>>

-----------------------------------------------------------------------------
(* Bounds of the model *)

MaxRequests == 2
MaxBatch == 2
MaxExecs == 2
MaxToolCalls == 1
MaxPublished == 1
MaxChoices == 3
MaxLongBatch == 3

DeliveryIds == {1, 2}

-----------------------------------------------------------------------------
(* Program constants *)

HTTP_202_ACCEPTED == 202
HTTP_400_BAD_REQUEST == 400
HTTP_500_INTERNAL_SERVER_ERROR == 500

maximum_attempts == 3
temperature_ge == 16
temperature_le == 32
qos == 2
non_retryable_error_types == {"ApiException"}

id_reuse_policy_allow_duplicate == "ALLOW_DUPLICATE"

id_reuse_policy == "TERMINATE_IF_RUNNING"

-----------------------------------------------------------------------------
(* Text: a message is a sequence of one-character strings *)

(* A character outside ASCII is written as its code point: "u53eb". *)
S_Pingu_spaced == <<" ", "P", "i", "n", " ", "G", "u", " ">>
S_noot_noot == <<"n", "o", "o", "t", " ", "n", "o", "o", "t">>
S_hello == <<"h", "i">>
S_PINGU_padded == <<"\t", "P", "I", "N", "G", "U", "\n">>
S_pin_tab_gu == <<"p", "i", "n", "\t", "g", "u">>

Messages == {S_Pingu_spaced, S_noot_noot, S_hello, S_PINGU_padded, S_pin_tab_gu}

IsSpace(c) == c \in {" ", "\t", "\n"}

lower_char(c) ==
    CASE c = "P" -> "p"
      [] c = "I" -> "i"
      [] c = "U" -> "u"
      [] c = "G" -> "g"
      [] c = "N" -> "n"
      [] OTHER -> c

(* str.strip: the text from its first to its last non-space character. *)
strip(s) ==
    IF \A k \in DOMAIN s : IsSpace(s[k]) THEN <<>>
    ELSE SubSeq(s,
                CHOOSE k \in DOMAIN s :
                    ~IsSpace(s[k]) /\ \A j \in 1..(k - 1) : IsSpace(s[j]),
                CHOOSE k \in DOMAIN s :
                    ~IsSpace(s[k]) /\ \A j \in (k + 1)..Len(s) : IsSpace(s[j]))

lower(s) == [i \in 1..Len(s) |-> lower_char(s[i])]

(* str.replace(" ", ""): only the space character is removed. *)
IsNotBlank(c) == c # " "

replace_space_kept(s) == s

replace_space(s) == SelectSeq(s, IsNotBlank)

Normalize_keep_spaces(message) == lower(strip(message))

Normalize_no_lower(message) == replace_space(strip(message))

Normalize(message) == replace_space(lower(strip(message)))

-----------------------------------------------------------------------------
(* Webhook events *)

reply_token_of(d) == 10 + d
quote_token_of(d) == 20 + d

NoContent == [type |-> "none", quote_token |-> 0, text |-> <<>>]

TextMessageEvent(d, t) ==
    [webhook_event_id |-> d, type |-> "message", reply_token |-> reply_token_of(d),
     message |-> [type |-> "text", quote_token |-> quote_token_of(d), text |-> t]]

ImageMessageEvent(d) ==
    [webhook_event_id |-> d, type |-> "message", reply_token |-> reply_token_of(d),
     message |-> [type |-> "image", quote_token |-> quote_token_of(d), text |-> <<>>]]

FollowEvent(d) ==
    [webhook_event_id |-> d, type |-> "follow", reply_token |-> reply_token_of(d),
     message |-> NoContent]

EventsOf(messages) ==
    {TextMessageEvent(d, t) : d \in DeliveryIds, t \in messages}
        \cup {ImageMessageEvent(1), FollowEvent(2)}

Events == EventsOf(Messages)

ReplyTokens == {reply_token_of(d) : d \in DeliveryIds}

isinstance_MessageEvent(event) == event.type = "message"
isinstance_TextMessageContent_any(message) == message.type \in {"text", "image"}

isinstance_TextMessageContent(message) == message.type = "text"

RECURSIVE SeqsUpTo(_, _)
SeqsUpTo(S, n) ==
    IF n = 0 THEN {<<>>}
    ELSE LET shorter == SeqsUpTo(S, n - 1)
         IN shorter \cup {Append(s, x) : s \in {t \in shorter : Len(t) = n - 1}, x \in S}

SystemMessages == {S_Pingu_spaced}

Batches == SeqsUpTo(EventsOf(SystemMessages), MaxBatch)

IsTextMessageEvent(event) == event.type = "message" /\ event.message.type = "text"

TextMessageEventsOf(events) == SelectSeq(events, IsTextMessageEvent)

NoRequest ==
    [state |-> "idle", events |-> <<>>, idx |-> 0, valid |-> FALSE,
     response |-> 0, body |-> "", error |-> "", starts |-> <<>>,
     ntext |-> 0, nstarts |-> 0]

(* The response leaves the handler.  Of a finished request the state keeps *)
(* the response and the tallies of the batch, not the batch.               *)
Respond(r, code, body, error) ==
    [NoRequest EXCEPT !.state = "done", !.valid = r.valid, !.response = code,
                      !.body = body, !.error = error,
                      !.ntext = Len(TextMessageEventsOf(r.events)),
                      !.nstarts = Len(r.starts)]

-----------------------------------------------------------------------------
(* Activity inputs and the requests the reply activities build *)

NoInput ==
    [reply_token |-> 0, quote_token |-> 0, message |-> "", quick_messages |-> <<>>,
     content_url |-> "", duration |-> 0, power_on |-> FALSE, temperature |-> 0]

ReplyTextActivityParams(rt, qt, m) ==
    [NoInput EXCEPT !.reply_token = rt, !.quote_token = qt, !.message = m]

ReplyQuickReplyActivityParams(rt, qt, m, qm) ==
    [NoInput EXCEPT !.reply_token = rt, !.quote_token = qt, !.message = m,
                    !.quick_messages = qm]

ReplyAudioActivityParams(rt, url, d) ==
    [NoInput EXCEPT !.reply_token = rt, !.content_url = url, !.duration = d]

RemoteControlAirConditionerActivityParams(p, t) ==
    [NoInput EXCEPT !.power_on = p, !.temperature = t]

NoMessage ==
    [type |-> "none", quote_token |-> 0, text |-> "", quick_reply |-> <<>>,
     original_content_url |-> "", duration |-> 0]

NoReplyMessageRequest == [reply_token |-> 0, messages |-> <<>>]

reply_text_quoting_reply_token(input) ==
    [reply_token |-> input.reply_token,
     messages |-> <<[NoMessage EXCEPT !.type = "text",
                                      !.quote_token = input.reply_token,
                                      !.text = input.message]>>]

reply_text(input) ==
    [reply_token |-> input.reply_token,
     messages |-> <<[NoMessage EXCEPT !.type = "text",
                                      !.quote_token = input.quote_token,
                                      !.text = input.message]>>]

reply_quick_reply_reversed(input) ==
    [reply_token |-> input.reply_token,
     messages |-> <<[NoMessage EXCEPT
                        !.type = "text",
                        !.quote_token = input.quote_token,
                        !.text = input.message,
                        !.quick_reply =
                            [i \in 1..Len(input.quick_messages) |->
                                [label |-> input.quick_messages[
                                                Len(input.quick_messages) + 1 - i],
                                 text |-> input.quick_messages[i]]]]>>]

reply_quick_reply(input) ==
    [reply_token |-> input.reply_token,
     messages |-> <<[NoMessage EXCEPT
                        !.type = "text",
                        !.quote_token = input.quote_token,
                        !.text = input.message,
                        !.quick_reply =
                            [i \in 1..Len(input.quick_messages) |->
                                [label |-> input.quick_messages[i],
                                 text |-> input.quick_messages[i]]]]>>]

reply_audio(input) ==
    [reply_token |-> input.reply_token,
     messages |-> <<[NoMessage EXCEPT !.type = "audio",
                                      !.original_content_url = input.content_url,
                                      !.duration = input.duration]>>]

ReplyActivities == {"reply_text", "reply_quick_reply", "reply_audio"}

ReplyMessageRequest(name, input) ==
    CASE name = "reply_text" -> reply_text(input)
      [] name = "reply_quick_reply" -> reply_quick_reply(input)
      [] name = "reply_audio" -> reply_audio(input)

-----------------------------------------------------------------------------
(* Workflow executions *)

NoAct ==
    [name |-> "none", input |-> NoInput, attempt |-> 0, phase |-> "none",
     resp |-> "none", prev |-> "none"]

NoVerdict == [is_related |-> FALSE, is_supported |-> FALSE, reason |-> ""]

(* The engine's record of an execution (id, input, status, result,         *)
(* failure, the activity task) and the locals of the running workflow.     *)
NewExecution(id, params) ==
    [id |-> id, reply_token |-> params.reply_token, quote_token |-> params.quote_token,
     message |-> params.message,
     status |-> "running", result |-> "none",
     failure |-> [attempt |-> 0, error |-> "none"],
     act |-> NoAct,
     pc |-> "start", checked |-> FALSE, verdict |-> NoVerdict, agentRan |-> FALSE,
     output |-> "", toolCalls |-> 0, ret |-> "none", invocations |-> 0, sends |-> 0,
     lastSent |-> NoReplyMessageRequest]

(* A closed execution has no workflow locals any more. *)
Close(e, status) ==
    [NewExecution(e.id, e) EXCEPT !.status = status, !.pc = "done"]

HandleTextMessageWorkflowParams(event) ==
    [reply_token |-> event.reply_token,
     quote_token |-> event.message.quote_token,
     message |-> event.message.text]

Running(id) == {i \in DOMAIN execs : execs[i].id = id /\ execs[i].status = "running"}
Closed(id) == {i \in DOMAIN execs : execs[i].id = id /\ execs[i].status # "running"}

(* Temporal's start of a workflow id under an id reuse policy: what the     *)
(* call returns ("started", or the error it raises) and the executions      *)
(* afterwards.  A running execution of the id is terminated only under      *)
(* TERMINATE_IF_RUNNING; under every other policy the call raises           *)
(* WorkflowAlreadyStartedError and the running execution is left alone.     *)
StartOutcome(id, policy) ==
    IF Running(id) # {} /\ policy # "TERMINATE_IF_RUNNING" THEN "already_started"
    ELSE IF Closed(id) # {} /\ policy = "REJECT_DUPLICATE" THEN "already_started"
    ELSE "started"

(* Termination closes the execution at once.  An activity attempt that a   *)
(* worker is already running goes on to its end; a scheduled one is never  *)
(* started.                                                                 *)
Terminate(id) ==
    [i \in DOMAIN execs |->
        IF i \in Running(id)
        THEN [Close(execs[i], "terminated") EXCEPT
                !.act = IF execs[i].act.phase = "inflight" THEN execs[i].act ELSE NoAct]
        ELSE execs[i]]

start_workflow(id, params, policy) ==
    IF StartOutcome(id, policy) = "started"
    THEN Append(Terminate(id), NewExecution(id, params))
    ELSE execs

StartCall(event, outcome) ==
    [id |-> event.webhook_event_id, id_reuse_policy |-> id_reuse_policy,
     params |-> HandleTextMessageWorkflowParams(event), outcome |-> outcome,
     replaced |-> Running(event.webhook_event_id)]

-----------------------------------------------------------------------------
(* POST /callback: handle_callback, one step per await *)

(* WebhookParser.parse: the signature is verified before the body is read; *)
(* InvalidSignatureError becomes HTTPException(400).                        *)
parse_unverified(valid, batch) ==
    [NoRequest EXCEPT !.state = "processing", !.events = batch, !.idx = 1,
                      !.valid = valid]

parse(valid, batch) ==
    IF valid
    THEN [NoRequest EXCEPT !.state = "processing", !.events = batch, !.idx = 1,
                           !.valid = TRUE]
    ELSE Respond([NoRequest EXCEPT !.events = batch],
                 HTTP_400_BAD_REQUEST, "Invalid signature.", "InvalidSignatureError")

CallbackReceive(valid, batch) ==
    /\ req.state # "processing"
    /\ nreq < MaxRequests
    /\ nreq' = nreq + 1
    /\ req' = parse(valid, batch)
    /\ UNCHANGED <<sent, life, ha, published, variant, execs, delivered>>

(* One iteration of the loop over the events whose event is not a text     *)
(* message: continue.                                                      *)
CallbackSkip ==
    /\ req.state = "processing"
    /\ req.idx <= Len(req.events)
    /\ LET event == req.events[req.idx]
       IN \/ ~isinstance_MessageEvent(event)
          \/ ~isinstance_TextMessageContent(event.message)
    /\ req' = [req EXCEPT !.idx = @ + 1]
    /\ UNCHANGED <<sent, life, ha, published, variant, nreq, execs, delivered>>

(* One iteration for a text message: await start_workflow returns a handle. *)
CallbackStart ==
    /\ req.state = "processing"
    /\ req.idx <= Len(req.events)
    /\ Len(execs) < MaxExecs
    /\ LET event == req.events[req.idx]
           outcome == StartOutcome(event.webhook_event_id, id_reuse_policy)
       IN /\ isinstance_MessageEvent(event)
          /\ isinstance_TextMessageContent(event.message)
          /\ execs' = start_workflow(event.webhook_event_id,
                                     HandleTextMessageWorkflowParams(event),
                                     id_reuse_policy)
          /\ req' = IF outcome = "started"
                    THEN [req EXCEPT !.idx = @ + 1,
                                     !.starts = Append(@, StartCall(event, outcome))]
                    ELSE Respond([req EXCEPT !.starts = Append(@, StartCall(event, outcome))],
                                 HTTP_500_INTERNAL_SERVER_ERROR, "",
                                 "WorkflowAlreadyStartedError")
    /\ UNCHANGED <<sent, life, ha, published, variant, nreq, delivered>>

(* await start_workflow raises and the loop goes on to the next event. *)
CallbackStartRaises_continue ==
    /\ req.state = "processing"
    /\ req.idx <= Len(req.events)
    /\ LET event == req.events[req.idx]
       IN /\ isinstance_MessageEvent(event)
          /\ isinstance_TextMessageContent(event.message)
          /\ req' = [req EXCEPT !.idx = @ + 1,
                                !.starts = Append(@, StartCall(event, "rpc_error"))]
    /\ UNCHANGED <<sent, life, ha, published, variant, nreq, execs, delivered>>

(* await start_workflow raises (the engine cannot be reached): the         *)
(* exception leaves the handler and the request ends with a server error.  *)
CallbackStartRaises ==
    /\ req.state = "processing"
    /\ req.idx <= Len(req.events)
    /\ LET event == req.events[req.idx]
       IN /\ isinstance_MessageEvent(event)
          /\ isinstance_TextMessageContent(event.message)
          /\ req' = Respond([req EXCEPT !.starts = Append(@, StartCall(event, "rpc_error"))],
                            HTTP_500_INTERNAL_SERVER_ERROR, "", "RPCError")
    /\ UNCHANGED <<sent, life, ha, published, variant, nreq, execs, delivered>>

(* The loop is over: return "ACCEPTED" with the route's status code. *)
CallbackReturn_after_completion ==
    /\ req.state = "processing"
    /\ req.idx > Len(req.events)
    /\ \A i \in DOMAIN execs : execs[i].status # "running"
    /\ req' = Respond(req, HTTP_202_ACCEPTED, "ACCEPTED", "")
    /\ UNCHANGED <<sent, life, ha, published, variant, nreq, execs, delivered>>

CallbackReturn ==
    /\ req.state = "processing"
    /\ req.idx > Len(req.events)
    /\ req' = Respond(req, HTTP_202_ACCEPTED, "ACCEPTED", "")
    /\ UNCHANGED <<sent, life, ha, published, variant, nreq, execs, delivered>>

-----------------------------------------------------------------------------
(* Scheduling an activity from a workflow: execute_activity *)

Schedule(name, input) ==
    [name |-> name, input |-> input, attempt |-> 1, phase |-> "scheduled",
     resp |-> "none", prev |-> "none"]

(* RetryPolicy(maximum_attempts=3, non_retryable_error_types=[ApiException]) *)
ShouldRetry_more_attempts(attempt, error) ==
    error \notin non_retryable_error_types /\ attempt < maximum_attempts + 1

ShouldRetry_api_retried(attempt, error) == attempt < maximum_attempts

ShouldRetry(attempt, error) ==
    error \notin non_retryable_error_types /\ attempt < maximum_attempts

-----------------------------------------------------------------------------
(* HandleTextMessageWorkflow.run, keyword table (src/workflow.py) *)

QuickReplyPrompt == "u60f3u8b93 Pingu u600eu9ebcu53eb ?"

PinguChoices ==
    << <<"u53eb">>, <<"u9a5a", "u8a1d">>, <<"u751f", "u6c23">>,
       <<"u5929", "u5a66", "u7f85">>, <<"u751c", "u751c", "u5708">>,
       <<"u96de", "u6392">> >>

KeywordTable ==
    << [keywords |-> << <<"p", "i", "n", "g", "u">> >>,
        activity |-> "reply_quick_reply", content_url |-> "", duration |-> 0],
       [keywords |-> << <<"u53eb">>, <<"n", "o", "o", "t">>,
                        <<"n", "o", "o", "t", " ", "n", "o", "o", "t">> >>,
        activity |-> "reply_audio",
        content_url |-> "https://static.weii.dev/audio/pingu/noot_noot.mp3",
        duration |-> 1000],
       [keywords |-> << <<"u9a5a", "u8a1d">>, <<"u9a5a">> >>,
        activity |-> "reply_audio",
        content_url |-> "https://static.weii.dev/audio/pingu/amazed.mp3",
        duration |-> 1000],
       [keywords |-> << <<"u751f", "u6c23">>, <<"u6c23">> >>,
        activity |-> "reply_audio",
        content_url |-> "https://static.weii.dev/audio/pingu/sms.mp3",
        duration |-> 4000],
       [keywords |-> << <<"u5929", "u5a66", "u7f85">>, <<"u4e7e">>, <<"u5e79">>,
                        <<"u5e79", "u4f60", "u5a18">> >>,
        activity |-> "reply_audio",
        content_url |-> "https://static.weii.dev/audio/pingu/oh_fucking.mp3",
        duration |-> 4000],
       [keywords |-> << <<"u751c", "u751c", "u5708">> >>,
        activity |-> "reply_audio",
        content_url |-> "https://static.weii.dev/audio/pingu/donut.mp3",
        duration |-> 4000],
       [keywords |-> << <<"u96de", "u6392">>, <<"u6a5f", "u63b0">>,
                        <<"u96de", "u5df4">>, <<"u96de", "u63b0">> >>,
        activity |-> "reply_audio",
        content_url |-> "https://static.weii.dev/audio/pingu/jiba.mp3",
        duration |-> 2000] >>

RowMatches_fall_through(r, text) ==
    \E q \in 1..r : \E k \in DOMAIN KeywordTable[q].keywords :
        KeywordTable[q].keywords[k] = text

RowMatches(r, text) ==
    \E k \in DOMAIN KeywordTable[r].keywords : KeywordTable[r].keywords[k] = text

(* match ... case: the first row, in order, one of whose keywords equals   *)
(* the normalized text; 0 is "case _".                                      *)
MatchRow(message) ==
    CHOOSE r \in 0..Len(KeywordTable) :
        \E text \in {Normalize(message)} :
            LET hits == {q \in DOMAIN KeywordTable : RowMatches(q, text)}
            IN IF hits = {} THEN r = 0 ELSE r \in hits /\ \A q \in hits : r <= q

RowInput(e, r) ==
    IF KeywordTable[r].activity = "reply_quick_reply"
    THEN ReplyQuickReplyActivityParams(e.reply_token, e.quote_token,
                                       QuickReplyPrompt, PinguChoices)
    ELSE ReplyAudioActivityParams(e.reply_token, KeywordTable[r].content_url,
                                  KeywordTable[r].duration)

KeywordRun(i) ==
    /\ variant = "keyword"
    /\ i \in DOMAIN execs
    /\ execs[i].status = "running"
    /\ execs[i].pc = "start"
    /\ \E r \in {MatchRow(execs[i].message)} :
        execs' =
            [execs EXCEPT ![i] =
                IF r = 0
                THEN [Close(@, "completed") EXCEPT !.result = "false"]
                ELSE [@ EXCEPT !.pc = "replying", !.ret = "true",
                               !.invocations = @ + 1,
                               !.act = Schedule(KeywordTable[r].activity,
                                                RowInput(execs[i], r))]]
    /\ UNCHANGED <<sent, life, ha, published, variant, req, nreq, delivered>>

-----------------------------------------------------------------------------
(* HandleTextMessageWorkflow.run, guardrail and agent (spec.md 4.2) *)

NOT_RELATED_MESSAGE == "only handle smart-home-related requests"
UNSUPPORTED_MESSAGE == "only handle supported requests"

Reasons == {"reason: off topic", "reason: no such device"}
Outputs == {"final output a", "final output b"}
ToolInputs == {RemoteControlAirConditionerActivityParams(p, t) : p \in BOOLEAN, t \in {16, 32}}

Verdicts == [is_related : BOOLEAN, is_supported : BOOLEAN, reason : Reasons]

Rejects(verdict) == ~verdict.is_related \/ ~verdict.is_supported

CannedReply_supported_first(verdict) ==
    IF ~verdict.is_supported THEN UNSUPPORTED_MESSAGE ELSE NOT_RELATED_MESSAGE

CannedReply(verdict) ==
    IF ~verdict.is_related THEN NOT_RELATED_MESSAGE ELSE UNSUPPORTED_MESSAGE

(* Step 1 and 2: the guardrail verdict; a rejection schedules the canned   *)
(* reply, whose success returns False.                                      *)
Guardrail_agent_anyway(e, verdict) ==
    [e EXCEPT !.checked = TRUE, !.verdict = verdict, !.pc = "agent"]

Guardrail(e, verdict) ==
    IF Rejects(verdict)
    THEN [e EXCEPT !.checked = TRUE, !.verdict = verdict, !.pc = "replying",
                   !.ret = "false", !.invocations = @ + 1,
                   !.act = Schedule("reply_text",
                                    ReplyTextActivityParams(e.reply_token, e.quote_token,
                                                            CannedReply(verdict)))]
    ELSE [e EXCEPT !.checked = TRUE, !.verdict = verdict, !.pc = "agent"]

GuardrailCheck(i, verdict) ==
    /\ variant = "agent"
    /\ i \in DOMAIN execs
    /\ execs[i].status = "running"
    /\ execs[i].pc = "start"
    /\ execs' = [execs EXCEPT ![i] = Guardrail(execs[i], verdict)]
    /\ UNCHANGED <<sent, life, ha, published, variant, req, nreq, delivered>>

(* Step 3, during the agent run: the agent calls its one tool, which       *)
(* executes the device-control activity.                                    *)
AgentToolCall(i, input) ==
    /\ variant = "agent"
    /\ i \in DOMAIN execs
    /\ execs[i].status = "running"
    /\ execs[i].pc = "agent"
    /\ execs[i].act = NoAct
    /\ execs[i].toolCalls < MaxToolCalls
    /\ execs' = [execs EXCEPT ![i] =
                    [@ EXCEPT !.agentRan = TRUE, !.toolCalls = @ + 1,
                              !.invocations = @ + 1,
                              !.act = Schedule("remote_control_air_conditioner", input)]]
    /\ UNCHANGED <<sent, life, ha, published, variant, req, nreq, delivered>>

(* Step 3, the end of the agent run: the final output is relayed by        *)
(* reply_text with the request's tokens; its success returns True.          *)
Relay(e, out) ==
    [e EXCEPT !.agentRan = TRUE, !.output = out, !.pc = "replying", !.ret = "true",
              !.invocations = @ + 1,
              !.act = Schedule("reply_text",
                               ReplyTextActivityParams(e.reply_token, e.quote_token, out))]

AgentFinish_during_tool_call(i, out) ==
    /\ variant = "agent"
    /\ i \in DOMAIN execs
    /\ execs[i].status = "running"
    /\ execs[i].pc = "agent"
    /\ execs' = [execs EXCEPT ![i] = Relay(execs[i], out)]
    /\ UNCHANGED <<sent, life, ha, published, variant, req, nreq, delivered>>

AgentFinish(i, out) ==
    /\ variant = "agent"
    /\ i \in DOMAIN execs
    /\ execs[i].status = "running"
    /\ execs[i].pc = "agent"
    /\ execs[i].act = NoAct
    /\ execs' = [execs EXCEPT ![i] = Relay(execs[i], out)]
    /\ UNCHANGED <<sent, life, ha, published, variant, req, nreq, delivered>>

-----------------------------------------------------------------------------
(* Activity attempts: the worker runs the activity body, the engine then   *)
(* applies the retry policy to what the attempt returned or raised.        *)

(* What one call of reply_message can do.  The provider consumes a reply   *)
(* token once: it accepts a request only for an unused token, and may      *)
(* reject an unused one too (expired, invalid).                             *)
(*   ok        accepted, the response arrives                              *)
(*   lost      accepted, the attempt times out before the response         *)
(*   rejected  HTTP 400: ApiException                                      *)
(*   unreached the request never arrives (connection error, timeout)       *)
tokenUsed == {t \in DOMAIN delivered : delivered[t] # <<>>}

ReplyOutcomes_reusable(token) == {"ok", "lost", "rejected", "unreached"}

ReplyOutcomes(token) ==
    IF token \in tokenUsed THEN {"rejected", "unreached"}
    ELSE {"ok", "lost", "rejected", "unreached"}

PublishOutcomes == {"ok", "unreached"}

Raised(o) ==
    CASE o = "ok" -> "ok"
      [] o = "rejected" -> "ApiException"
      [] OTHER -> "TimeoutError"

(* HomeAssistantActivity (src/activity/homeassistant.py).  The pydantic     *)
(* dataclass validates its fields when it is constructed: a temperature    *)
(* outside ge..le raises ValidationError and no activity body runs.        *)
ValidationError_none(input) == FALSE

ValidationError(input) ==
    input.temperature < temperature_ge \/ input.temperature > temperature_le

(* The command is a dict, kept here as its items in insertion order.       *)
generate_mqtt_payload(power_on, temperature) ==
    << <<"Vendor", "HITACHI_AC344">>, <<"Model", -1>>, <<"Command", "Control">>,
       <<"Mode", "Cool">>, <<"Power", IF power_on THEN "On" ELSE "Off">>,
       <<"Celsius", "On">>, <<"Temp", temperature>>, <<"FanSpeed", "Auto">>,
       <<"SwingV", "Auto">>, <<"SwingH", "Auto">> >>

(* json.dumps of the command: the members of the JSON object, in order.    *)
json_dumps(payload) ==
    [k \in 1..Len(payload) |-> [name |-> payload[k][1], value |-> payload[k][2]]]

(* What remote_control_air_conditioner hands to mqtt_client.publish.        *)
remote_control_air_conditioner(input) ==
    [topic |-> "tasmota/cmnd/IRHVAC",
     payload |-> json_dumps(generate_mqtt_payload(input.power_on, input.temperature)),
     qos |-> qos]

(* The binary-sensor reads: the door read returns result.state as it is,   *)
(* the presence read renames on and off.                                    *)
check_1f_inner_door_status_unknown(state) ==
    IF state \in {"on", "off"} THEN state ELSE "unknown"

check_1f_inner_door_status(state) == state

check_2f_bedroom_presence_status_no_mapping(state) == state

check_2f_bedroom_presence_status(state) ==
    IF state = "on" THEN "yes" ELSE (IF state = "off" THEN "no" ELSE state)

ReplyAttempt(i, o) ==
    /\ i \in DOMAIN execs
    /\ execs[i].status = "running"
    /\ execs[i].act.phase = "scheduled"
    /\ execs[i].act.name \in ReplyActivities
    /\ o \in ReplyOutcomes(execs[i].act.input.reply_token)
    /\ LET e == execs[i]
           request == ReplyMessageRequest(e.act.name, e.act.input)
           accepted == o \in {"ok", "lost"}
       IN /\ execs' = [execs EXCEPT ![i] =
                [e EXCEPT !.act.phase = "inflight", !.act.resp = Raised(o),
                          !.sends = @ + 1, !.lastSent = request]]
          /\ delivered' = IF accepted
                          THEN [delivered EXCEPT ![request.reply_token] =
                                    Append(@, request)]
                          ELSE delivered
    /\ UNCHANGED <<sent, life, ha, published, variant, req, nreq>>

ToolAttempt(i, o) ==
    /\ i \in DOMAIN execs
    /\ execs[i].status = "running"
    /\ execs[i].act.phase = "scheduled"
    /\ execs[i].act.name = "remote_control_air_conditioner"
    /\ o \in PublishOutcomes
    /\ execs' = [execs EXCEPT ![i] =
                    [@ EXCEPT !.act.phase = "inflight", !.act.resp = Raised(o)]]
    /\ published' = IF o = "ok"
                    THEN Append(published,
                                remote_control_air_conditioner(execs[i].act.input))
                    ELSE published
    /\ UNCHANGED <<sent, life, ha, variant, req, nreq, delivered>>

(* The attempt's result reaches the engine.  A closed (terminated)         *)
(* execution takes no result; a success resumes the workflow; a failure is *)
(* retried under the retry policy or raised in the workflow, which has no  *)
(* handler and fails.                                                       *)
Completed_never_returns(e) ==
    IF e.status # "running" THEN [e EXCEPT !.act = NoAct]
    ELSE IF e.act.resp = "ok"
    THEN [e EXCEPT !.act = NoAct]
    ELSE IF ShouldRetry(e.act.attempt, e.act.resp)
    THEN [e EXCEPT !.act.attempt = @ + 1, !.act.phase = "scheduled",
                   !.act.prev = e.act.resp, !.act.resp = "none"]
    ELSE [Close(e, "failed") EXCEPT
            !.failure = [attempt |-> e.act.attempt, error |-> e.act.resp]]

Completed_error_swallowed(e) ==
    IF e.status # "running" THEN [e EXCEPT !.act = NoAct]
    ELSE IF e.act.resp = "ok"
    THEN IF e.act.name \in ReplyActivities
         THEN [Close(e, "completed") EXCEPT !.result = e.ret]
         ELSE [e EXCEPT !.act = NoAct]
    ELSE IF ShouldRetry(e.act.attempt, e.act.resp)
    THEN [e EXCEPT !.act.attempt = @ + 1, !.act.phase = "scheduled",
                   !.act.prev = e.act.resp, !.act.resp = "none"]
    ELSE [Close(e, "completed") EXCEPT !.result = e.ret]

Completed(e) ==
    IF e.status # "running" THEN [e EXCEPT !.act = NoAct]
    ELSE IF e.act.resp = "ok"
    THEN IF e.act.name \in ReplyActivities
         THEN [Close(e, "completed") EXCEPT !.result = e.ret]
         ELSE [e EXCEPT !.act = NoAct]
    ELSE IF ShouldRetry(e.act.attempt, e.act.resp)
    THEN [e EXCEPT !.act.attempt = @ + 1, !.act.phase = "scheduled",
                   !.act.prev = e.act.resp, !.act.resp = "none"]
    ELSE [Close(e, "failed") EXCEPT
            !.failure = [attempt |-> e.act.attempt, error |-> e.act.resp]]

AttemptCompletes(i) ==
    /\ i \in DOMAIN execs
    /\ execs[i].act.phase = "inflight"
    /\ execs' = [execs EXCEPT ![i] = Completed(execs[i])]
    /\ UNCHANGED <<sent, life, ha, published, variant, req, nreq, delivered>>

-----------------------------------------------------------------------------
(* Calls of the HomeAssistantActivity methods, one step per call           *)

Temperatures == (temperature_ge - 2)..(temperature_le + 2)
RawStates == {"on", "off", "unknown", "unavailable"}

NoCall == [op |-> "none", power_on |-> FALSE, temperature |-> 0, state |-> "",
           result |-> ""]

(* The parameters are built from the caller's arguments, then the body     *)
(* publishes the command; a publish that raises leaves nothing published.  *)
RemoteControlAirConditioner(power_on, temperature, o) ==
    /\ Len(published) < MaxPublished
    /\ o \in PublishOutcomes
    /\ LET input == RemoteControlAirConditionerActivityParams(power_on, temperature)
           call == [NoCall EXCEPT !.op = "remote_control_air_conditioner",
                                  !.power_on = power_on, !.temperature = temperature]
       IN IF ValidationError(input)
          THEN /\ ha' = [call EXCEPT !.result = "ValidationError"]
               /\ published' = published
          ELSE IF o = "ok"
          THEN /\ ha' = [call EXCEPT !.result = "None"]
               /\ published' = Append(published, remote_control_air_conditioner(input))
          ELSE /\ ha' = [call EXCEPT !.result = "MqttError"]
               /\ published' = published
    /\ UNCHANGED <<sent, life, variant, req, nreq, execs, delivered>>

Check1FInnerDoorStatus(state) ==
    /\ ha' = [NoCall EXCEPT !.op = "check_1f_inner_door_status", !.state = state,
                            !.result = check_1f_inner_door_status(state)]
    /\ UNCHANGED <<sent, life, published, variant, req, nreq, execs, delivered>>

Check2FBedroomPresenceStatus(state) ==
    /\ ha' = [NoCall EXCEPT !.op = "check_2f_bedroom_presence_status",
                            !.state = state,
                            !.result = check_2f_bedroom_presence_status(state)]
    /\ UNCHANGED <<sent, life, published, variant, req, nreq, execs, delivered>>

-----------------------------------------------------------------------------
(* A reply activity called on its own, with any list of choices            *)

Choices == {<<"a">>, <<"b", "c">>}
QuickMessages == SeqsUpTo(Choices, MaxChoices)

NoSent == [input |-> NoInput, request |-> NoReplyMessageRequest, result |-> "none"]

ReplyQuickReplyCall(d, quick_messages, o) ==
    /\ o \in ReplyOutcomes(reply_token_of(d))
    /\ LET input == ReplyQuickReplyActivityParams(reply_token_of(d), quote_token_of(d),
                                                  QuickReplyPrompt, quick_messages)
           request == reply_quick_reply(input)
       IN /\ sent' = [input |-> input, request |-> request, result |-> Raised(o)]
          /\ delivered' = IF o \in {"ok", "lost"}
                          THEN [delivered EXCEPT ![request.reply_token] =
                                    Append(@, request)]
                          ELSE delivered
    /\ UNCHANGED <<life, ha, published, variant, req, nreq, execs>>

-----------------------------------------------------------------------------
(* lifespan (src/main.py): the application between startup and shutdown   *)

(* After startup: the worker task runs, the clients are connected, the     *)
(* application serves requests.                                             *)
Serving ==
    [pc |-> "serving", task |-> "running", cancel_requested |-> FALSE,
     worker_shutdown |-> FALSE, mqtt_loop |-> TRUE, mqtt |-> "connected",
     line |-> "open", raised |-> "none"]

(* The clients are connected and the worker is built: line 88 is next. *)
Created == [Serving EXCEPT !.pc = "create_task", !.task = "none"]

(* task = asyncio.create_task(worker.run()); yield *)
LifespanStart ==
    /\ life.pc = "create_task"
    /\ life' = [life EXCEPT !.pc = "serving", !.task = "running"]
    /\ UNCHANGED <<sent, ha, published, variant, req, nreq, execs, delivered>>

(* worker.run() ends by itself while the application serves: it returns,   *)
(* or it raises a fatal worker error.                                       *)
WorkerRunEnds(how) ==
    /\ life.pc = "serving"
    /\ life.task = "running"
    /\ how \in {"finished", "failed"}
    /\ life' = [life EXCEPT !.task = how]
    /\ UNCHANGED <<sent, ha, published, variant, req, nreq, execs, delivered>>

(* The shutdown going to worker.shutdown() without awaiting the task. *)
LifespanCancel_without_await ==
    /\ life.pc = "serving"
    /\ life' = [life EXCEPT !.pc = "worker_shutdown",
                            !.cancel_requested = (life.task = "running")]
    /\ UNCHANGED <<sent, ha, published, variant, req, nreq, execs, delivered>>

(* The server has stopped serving and resumes lifespan after the yield:    *)
(* task.cancel(), which requests the cancellation of a task not yet done.  *)
LifespanCancel ==
    /\ life.pc = "serving"
    /\ life' = [life EXCEPT !.pc = "await_task",
                            !.cancel_requested = (life.task = "running")]
    /\ UNCHANGED <<sent, ha, published, variant, req, nreq, execs, delivered>>

(* await task with the release in a finally clause: every way the task     *)
(* ended leads to worker.shutdown().                                        *)
LifespanAwait_finally ==
    /\ life.pc = "await_task"
    /\ life' = [life EXCEPT !.pc = "worker_shutdown",
                            !.task = IF life.task = "running" THEN "cancelled" ELSE @]
    /\ UNCHANGED <<sent, ha, published, variant, req, nreq, execs, delivered>>

(* await task: a cancelled task raises CancelledError, which the except    *)
(* clause handles; a task that had returned lets the try end normally, so  *)
(* the except clause is skipped; a task that had failed raises its error,  *)
(* which no clause handles.                                                 *)
LifespanAwait ==
    /\ life.pc = "await_task"
    /\ life' = CASE life.task = "running" ->
                        [life EXCEPT !.task = "cancelled", !.pc = "worker_shutdown"]
                  [] life.task = "finished" -> [life EXCEPT !.pc = "exited"]
                  [] OTHER -> [life EXCEPT !.pc = "raised", !.raised = "WorkerError"]
    /\ UNCHANGED <<sent, ha, published, variant, req, nreq, execs, delivered>>

(* await worker.shutdown() *)
LifespanWorkerShutdown ==
    /\ life.pc = "worker_shutdown"
    /\ life' = [life EXCEPT !.worker_shutdown = TRUE, !.pc = "mqtt_loop_stop"]
    /\ UNCHANGED <<sent, ha, published, variant, req, nreq, execs, delivered>>

(* mqtt_client.loop_stop(); mqtt_client.disconnect() *)
LifespanMqttStop ==
    /\ life.pc = "mqtt_loop_stop"
    /\ life' = [life EXCEPT !.mqtt_loop = FALSE, !.mqtt = "disconnected",
                            !.pc = "line_close"]
    /\ UNCHANGED <<sent, ha, published, variant, req, nreq, execs, delivered>>

(* await line_messaging_api.api_client.close() *)
LifespanLineClose ==
    /\ life.pc = "line_close"
    /\ life' = [life EXCEPT !.line = "closed", !.pc = "exited"]
    /\ UNCHANGED <<sent, ha, published, variant, req, nreq, execs, delivered>>

-----------------------------------------------------------------------------

Init ==
    /\ variant \in {"keyword", "agent"}
    /\ req = NoRequest
    /\ nreq = 0
    /\ execs = <<>>
    /\ delivered = [t \in ReplyTokens |-> <<>>]
    /\ published = <<>>
    /\ ha = NoCall
    /\ life = Serving
    /\ sent = NoSent

(* The whole service: webhook requests, redeliveries included, and the     *)
(* executions they start, running side by side.  The guardrail and the     *)
(* agent answer from SystemVerdicts and SystemOutputs.                      *)
SystemVerdicts ==
    {v \in Verdicts : v.is_related = v.is_supported /\ v.reason = "reason: off topic"}
SystemOutputs == {"final output a"}

Next ==
    \/ \E valid \in BOOLEAN, batch \in Batches : CallbackReceive(valid, batch)
    \/ CallbackSkip
    \/ CallbackStart
    \/ CallbackStartRaises
    \/ CallbackReturn
    \/ \E i \in 1..MaxExecs : KeywordRun(i)
    \/ \E i \in 1..MaxExecs, verdict \in SystemVerdicts : GuardrailCheck(i, verdict)
    \/ \E i \in 1..MaxExecs, out \in SystemOutputs : AgentFinish(i, out)
    \/ \E i \in 1..MaxExecs, o \in {"ok", "lost", "rejected", "unreached"} :
            ReplyAttempt(i, o)
    \/ \E i \in 1..MaxExecs : AttemptCompletes(i)

Spec == Init /\ [][Next]_vars

(* One delivery: a single request carrying a single event, and the         *)
(* execution it starts, with every verdict, output and tool call.          *)
SingleBatches == {<<e>> : e \in Events}

NextDelivery ==
    \/ \E valid \in BOOLEAN, batch \in SingleBatches :
            nreq = 0 /\ CallbackReceive(valid, batch)
    \/ CallbackSkip
    \/ execs = <<>> /\ CallbackStart
    \/ CallbackStartRaises
    \/ CallbackReturn
    \/ KeywordRun(1)
    \/ \E verdict \in Verdicts : GuardrailCheck(1, verdict)
    \/ \E input \in ToolInputs : AgentToolCall(1, input)
    \/ \E out \in Outputs : AgentFinish(1, out)
    \/ \E o \in {"ok", "lost", "rejected", "unreached"} : ReplyAttempt(1, o)
    \/ \E o \in PublishOutcomes : ToolAttempt(1, o)
    \/ AttemptCompletes(1)

SpecDelivery == Init /\ [][NextDelivery]_vars

(* Deliveries and redeliveries of single events, with the steps of every   *)
(* execution taken fairly: a runnable workflow step is eventually taken (a *)
(* worker polls the task queue), a scheduled activity attempt is           *)
(* eventually started and a started attempt eventually completes, fails or *)
(* times out (start_to_close_timeout).                                      *)
RedeliveryBatches == {<<e>> : e \in EventsOf(SystemMessages)}
SystemToolInputs == {RemoteControlAirConditionerActivityParams(TRUE, temperature_ge)}

NextRedelivery ==
    \/ \E valid \in BOOLEAN, batch \in RedeliveryBatches : CallbackReceive(valid, batch)
    \/ CallbackSkip
    \/ CallbackStart
    \/ CallbackStartRaises
    \/ CallbackReturn
    \/ \E i \in 1..MaxExecs : KeywordRun(i)
    \/ \E i \in 1..MaxExecs, verdict \in SystemVerdicts : GuardrailCheck(i, verdict)
    \/ \E i \in 1..MaxExecs, input \in SystemToolInputs : AgentToolCall(i, input)
    \/ \E i \in 1..MaxExecs, out \in SystemOutputs : AgentFinish(i, out)
    \/ \E i \in 1..MaxExecs, o \in {"ok", "lost", "rejected", "unreached"} :
            ReplyAttempt(i, o)
    \/ \E i \in 1..MaxExecs, o \in PublishOutcomes : ToolAttempt(i, o)
    \/ \E i \in 1..MaxExecs : AttemptCompletes(i)

(* The steps that move execution i forward: its workflow steps, the start *)
(* of its scheduled attempt, the end of its attempt in progress.  The      *)
(* agent's decision to call its tool once more is not among them.          *)
ExecutionStep(i) ==
    \/ KeywordRun(i)
    \/ \E verdict \in SystemVerdicts : GuardrailCheck(i, verdict)
    \/ \E out \in SystemOutputs : AgentFinish(i, out)
    \/ \E o \in {"ok", "lost", "rejected", "unreached"} : ReplyAttempt(i, o)
    \/ \E o \in PublishOutcomes : ToolAttempt(i, o)
    \/ AttemptCompletes(i)

Fairness == \A i \in 1..MaxExecs : WF_vars(ExecutionStep(i))

SpecRedeliveryFair == Init /\ [][NextRedelivery]_vars /\ Fairness

(* The application from startup to shutdown, with one request: requests   *)
(* are handled while the application serves, and the steps of the          *)
(* executions are taken while the worker task runs.                         *)
InitLifespan ==
    /\ variant \in {"keyword", "agent"}
    /\ req = NoRequest
    /\ nreq = 0
    /\ execs = <<>>
    /\ delivered = [t \in ReplyTokens |-> <<>>]
    /\ published = <<>>
    /\ ha = NoCall
    /\ life = Created
    /\ sent = NoSent

IsServing == life.pc = "serving"
WorkerRuns == life.task = "running"

NextLifespan ==
    \/ LifespanStart
    \/ \E how \in {"finished", "failed"} : WorkerRunEnds(how)
    \/ LifespanCancel
    \/ LifespanAwait
    \/ LifespanWorkerShutdown
    \/ LifespanMqttStop
    \/ LifespanLineClose
    \/ \E valid \in BOOLEAN, batch \in RedeliveryBatches :
            IsServing /\ nreq = 0 /\ CallbackReceive(valid, batch)
    \/ IsServing /\ CallbackSkip
    \/ IsServing /\ CallbackStart
    \/ IsServing /\ CallbackStartRaises
    \/ IsServing /\ CallbackReturn
    \/ WorkerRuns /\ KeywordRun(1)
    \/ \E verdict \in SystemVerdicts : WorkerRuns /\ GuardrailCheck(1, verdict)
    \/ \E out \in SystemOutputs : WorkerRuns /\ AgentFinish(1, out)
    \/ \E o \in {"ok", "lost", "rejected", "unreached"} : WorkerRuns /\ ReplyAttempt(1, o)
    \/ WorkerRuns /\ AttemptCompletes(1)

SpecLifespan == InitLifespan /\ [][NextLifespan]_vars

(* The keyword-table workflow started with every keyword literal of its   *)
(* table as the message, and with the other messages: one request with one *)
(* event, and the execution it starts.                                      *)
KeywordLiterals ==
    UNION {{KeywordTable[r].keywords[k] : k \in DOMAIN KeywordTable[r].keywords} :
                r \in DOMAIN KeywordTable}

KeywordBatches ==
    {<<TextMessageEvent(1, t)>> : t \in KeywordLiterals \cup Messages}
        \cup {<<ImageMessageEvent(1)>>}

InitKeywords ==
    /\ variant = "keyword"
    /\ req = NoRequest
    /\ nreq = 0
    /\ execs = <<>>
    /\ delivered = [t \in ReplyTokens |-> <<>>]
    /\ published = <<>>
    /\ ha = NoCall
    /\ life = Serving
    /\ sent = NoSent

NextKeywords ==
    \/ \E valid \in BOOLEAN, batch \in KeywordBatches :
            nreq = 0 /\ CallbackReceive(valid, batch)
    \/ CallbackSkip
    \/ CallbackStart
    \/ CallbackStartRaises
    \/ CallbackReturn
    \/ KeywordRun(1)
    \/ \E o \in {"ok", "lost", "rejected", "unreached"} : ReplyAttempt(1, o)
    \/ AttemptCompletes(1)

SpecKeywords == InitKeywords /\ [][NextKeywords]_vars

(* One request with a batch of up to MaxLongBatch events, and the          *)
(* keyword-table executions it starts.                                      *)
LongBatches ==
    SeqsUpTo({TextMessageEvent(1, S_Pingu_spaced), TextMessageEvent(2, S_hello),
              ImageMessageEvent(1)}, MaxLongBatch)

NextBatch ==
    \/ \E valid \in BOOLEAN, batch \in LongBatches :
            nreq = 0 /\ CallbackReceive(valid, batch)
    \/ CallbackSkip
    \/ CallbackStart
    \/ CallbackStartRaises
    \/ CallbackReturn
    \/ \E i \in 1..MaxExecs : KeywordRun(i)
    \/ \E i \in 1..MaxExecs, o \in {"ok", "lost", "rejected", "unreached"} :
            ReplyAttempt(i, o)
    \/ \E i \in 1..MaxExecs : AttemptCompletes(i)

SpecBatch == InitKeywords /\ [][NextBatch]_vars

(* The home-automation activities called on their own, with every          *)
(* temperature around the accepted range and every raw sensor state.        *)
NextHome ==
    \/ \E power_on \in BOOLEAN, temperature \in Temperatures, o \in PublishOutcomes :
            RemoteControlAirConditioner(power_on, temperature, o)
    \/ \E state \in RawStates : Check1FInnerDoorStatus(state)
    \/ \E state \in RawStates : Check2FBedroomPresenceStatus(state)

SpecHome == Init /\ [][NextHome]_vars

(* The quick-reply activity called on its own, for one delivery. *)
NextReply ==
    \E quick_messages \in QuickMessages, o \in {"ok", "lost", "rejected", "unreached"} :
        ReplyQuickReplyCall(1, quick_messages, o)

SpecReply == Init /\ [][NextReply]_vars

-----------------------------------------------------------------------------
(* Properties of the webhook dispatcher and of the engine's workflow ids   *)

(* C1: a request whose signature fails verification is answered 400 and    *)
(* has issued no workflow-start call, whatever its body holds; the loop    *)
(* over the events, where starts are issued, runs only for a request whose *)
(* signature was verified.                                                  *)
C1_InvalidSignatureRejected ==
    /\ req.state = "processing" => req.valid
    /\ (req.state = "done" /\ ~req.valid) =>
            /\ req.response = HTTP_400_BAD_REQUEST
            /\ req.response = 400
            /\ req.nstarts = 0
    /\ req.response = 400 => ~req.valid

C1_Witness ==
    /\ req.state = "done"
    /\ ~req.valid
    /\ req.response = 400
    /\ req.ntext = 2

(* C2 as stated: every request with a valid signature has issued, when it  *)
(* is answered, as many start calls as its batch holds text-message events. *)
C2_StartsEqualTextEvents ==
    (req.state = "done" /\ req.valid) => req.nstarts = req.ntext

(* C2, amended: while no start call has raised, the start calls issued so  *)
(* far are, in order, one per text-message event among the events already  *)
(* handled, each with the event's own delivery id as workflow id, the      *)
(* TERMINATE_IF_RUNNING policy and the event's tokens and text; an event   *)
(* of another kind adds no call and no error.  A request answered 202 has  *)
(* issued exactly one start per text-message event of its batch.            *)
C2_OneStartPerTextEvent ==
    /\ req.state = "processing" =>
            LET handled == TextMessageEventsOf(SubSeq(req.events, 1, req.idx - 1))
            IN /\ Len(req.starts) = Len(handled)
               /\ \A k \in DOMAIN req.starts :
                    /\ req.starts[k].outcome = "started"
                    /\ req.starts[k].id = handled[k].webhook_event_id
                    /\ req.starts[k].id_reuse_policy = "TERMINATE_IF_RUNNING"
                    /\ req.starts[k].params =
                            [reply_token |-> handled[k].reply_token,
                             quote_token |-> handled[k].message.quote_token,
                             message |-> handled[k].message.text]
    /\ (req.state = "done" /\ req.response = 202) =>
            req.valid /\ req.error = "" /\ req.nstarts = req.ntext

C2_Witness ==
    /\ req.state = "processing"
    /\ req.idx > Len(req.events)
    /\ Len(req.events) = 2
    /\ Len(req.starts) = 1
    /\ ~IsTextMessageEvent(req.events[1])

(* C3: at most one execution of a workflow id is running at any time, and  *)
(* a start call that reaches the engine while an execution of the same id  *)
(* is running terminates that execution and leaves the new one running.    *)
AtMostOneRunning == \A d \in DeliveryIds : Cardinality(Running(d)) <= 1

StartReaches(d) ==
    /\ req.state = "processing"
    /\ req.idx <= Len(req.events)
    /\ IsTextMessageEvent(req.events[req.idx])
    /\ req.events[req.idx].webhook_event_id = d
    /\ req' # req
    /\ req'.error # "RPCError"

C3_SecondStartSupersedes ==
    /\ []AtMostOneRunning
    /\ [][\A d \in DeliveryIds :
            (StartReaches(d) /\ Running(d) # {}) =>
                /\ \A i \in Running(d) : execs'[i].status = "terminated"
                /\ Len(execs') = Len(execs) + 1
                /\ execs'[Len(execs')].id = d
                /\ execs'[Len(execs')].status = "running"]_vars

C3_Witness ==
    /\ Len(execs) = 2
    /\ execs[1].id = execs[2].id
    /\ execs[1].status = "terminated"
    /\ execs[2].status = "running"

-----------------------------------------------------------------------------
(* Properties of one execution: retries, the guardrail, the reply          *)

IsReplying(e) == e.status = "running" /\ e.act.name \in ReplyActivities

(* C5 as stated: an execution ended by the provider's ApiException has     *)
(* returned success = false.                                                *)
C5_ApiExceptionReturnsFalse ==
    \A i \in DOMAIN execs :
        execs[i].failure.error = "ApiException" => execs[i].result = "false"

(* C5, amended: when a reply attempt raises ApiException, the engine's     *)
(* next step for the execution fails it at once: no further attempt is     *)
(* scheduled, the failure is that ApiException, and no success value,      *)
(* neither true nor false, is returned.  No attempt ever follows an        *)
(* attempt that raised ApiException.                                        *)
C5_ApiExceptionFailsAtOnce ==
    /\ [](\A i \in DOMAIN execs :
            /\ execs[i].act.prev # "ApiException"
            /\ execs[i].failure.error = "ApiException" =>
                    /\ execs[i].status = "failed"
                    /\ execs[i].result = "none"
                    /\ execs[i].act = NoAct)
    /\ [][\A i \in DOMAIN execs :
            (/\ IsReplying(execs[i])
             /\ execs[i].act.phase = "inflight"
             /\ execs[i].act.resp = "ApiException"
             /\ execs'[i] # execs[i]) =>
                /\ execs'[i].status = "failed"
                /\ execs'[i].failure =
                        [attempt |-> execs[i].act.attempt, error |-> "ApiException"]
                /\ execs'[i].act = NoAct]_vars

C5_Witness ==
    /\ Len(execs) = 1
    /\ execs[1].status = "failed"
    /\ execs[1].failure = [attempt |-> 1, error |-> "ApiException"]

(* C6: an activity invocation is attempted at most 3 times; an attempt     *)
(* after the first follows only an attempt that failed with an error other *)
(* than ApiException, never a successful one; an execution fails from a    *)
(* retryable error only at the third attempt; a failed execution has no    *)
(* activity scheduled and never changes again.                              *)
C6_AtMostThreeAttempts ==
    /\ [](\A i \in DOMAIN execs :
            /\ execs[i].act.attempt <= 3
            /\ execs[i].act.attempt > 1 => execs[i].act.prev = "TimeoutError"
            /\ execs[i].act.attempt <= 1 => execs[i].act.prev = "none"
            /\ execs[i].status = "failed" =>
                    /\ execs[i].failure.attempt \in 1..3
                    /\ execs[i].failure.error \in {"ApiException", "TimeoutError"}
                    /\ execs[i].failure.error = "TimeoutError" =>
                            execs[i].failure.attempt = 3
                    /\ execs[i].act = NoAct)
    /\ [][\A i \in DOMAIN execs :
            /\ execs[i].status = "failed" => execs'[i] = execs[i]
            /\ (execs[i].act.phase = "inflight" /\ execs[i].act.resp = "ok") =>
                    execs'[i].act \in {execs[i].act, NoAct}
            /\ (/\ execs[i].status = "running"
                /\ execs[i].act.phase = "inflight"
                /\ execs[i].act.resp = "TimeoutError"
                /\ execs[i].act.attempt = 3
                /\ execs'[i] # execs[i]) => execs'[i].status = "failed"]_vars

C6_Witness ==
    /\ Len(execs) = 1
    /\ execs[1].status = "failed"
    /\ execs[1].failure = [attempt |-> 3, error |-> "TimeoutError"]

(* C7 as stated: an execution never sends a second reply request for its   *)
(* reply token.                                                             *)
C7_SentOnce == \A i \in DOMAIN execs : execs[i].sends <= 1

(* C7, amended: an execution sends one reply request per attempt of its    *)
(* one reply invocation, so at most 3 for its reply token, each the same   *)
(* request for the token of the execution; none before the reply step.     *)
C7_SentOncePerAttempt ==
    \A i \in DOMAIN execs :
        LET e == execs[i]
        IN /\ e.sends <= 3
           /\ IsReplying(e) =>
                /\ e.sends = IF e.act.phase = "inflight" THEN e.act.attempt
                             ELSE e.act.attempt - 1
                /\ e.act.input.reply_token = e.reply_token
                /\ e.sends > 0 => e.lastSent.reply_token = e.reply_token
           /\ ~IsReplying(e) => e.sends = 0

C7_Witness ==
    /\ Len(execs) = 1
    /\ execs[1].sends = 3
    /\ Len(delivered[execs[1].reply_token]) = 1

-----------------------------------------------------------------------------
(* Properties of the guardrail and of the relayed answer                   *)

Rejected(e) == e.status = "running" /\ e.checked /\ Rejects(e.verdict)
Accepted(e) == e.status = "running" /\ e.checked /\ ~Rejects(e.verdict)

TextMessage(quote_token, text) ==
    [NoMessage EXCEPT !.type = "text", !.quote_token = quote_token, !.text = text]

(* C8: the canned reply of a rejected input is chosen by is_related first: *)
(* with is_related = false the reply text is the not-related message       *)
(* whatever is_supported is, and with is_related = true and is_supported   *)
(* = false it is the unsupported message; this is the text of the reply    *)
(* activity's input and of every request the execution sends.              *)
C8_CannedReplyByRelatedFirst ==
    \A i \in DOMAIN execs :
        LET e == execs[i]
            text == IF e.verdict.is_related THEN UNSUPPORTED_MESSAGE
                    ELSE NOT_RELATED_MESSAGE
        IN Rejected(e) =>
            /\ e.act.name = "reply_text"
            /\ e.act.input.message = text
            /\ e.sends > 0 => e.lastSent.messages = <<TextMessage(e.quote_token, text)>>

C8_Witness ==
    /\ Len(execs) = 1
    /\ Rejected(execs[1])
    /\ ~execs[1].verdict.is_related
    /\ execs[1].verdict.is_supported
    /\ execs[1].sends = 1
    /\ execs[1].lastSent.messages[1].text = NOT_RELATED_MESSAGE

(* C9: once the verdict has is_related = false or is_supported = false the *)
(* workflow is in its reply step and stays there until it closes: its one  *)
(* activity invocation is the canned reply, the agent has not run and the  *)
(* tool has not been called, the text sent is a canned message and never   *)
(* the verdict's reason, and when the reply succeeds the execution         *)
(* completes with success = false.                                          *)
C9_RejectedSendsOnlyCannedReply ==
    /\ [](\A i \in DOMAIN execs :
            LET e == execs[i]
            IN /\ Rejected(e) =>
                    /\ e.pc = "replying"
                    /\ ~e.agentRan
                    /\ e.toolCalls = 0
                    /\ e.invocations = 1
                    /\ e.act.name = "reply_text"
                    /\ e.act.input.message \in {NOT_RELATED_MESSAGE, UNSUPPORTED_MESSAGE}
                    /\ e.act.input.message # e.verdict.reason
                    /\ e.ret = "false"
                    /\ \A k \in DOMAIN delivered[e.reply_token] :
                            delivered[e.reply_token][k] =
                                [reply_token |-> e.reply_token,
                                 messages |-> <<TextMessage(e.quote_token,
                                                            CannedReply(e.verdict))>>]
               /\ (variant = "agent" /\ e.result = "false") =>
                    \A k \in DOMAIN delivered[e.reply_token] :
                        delivered[e.reply_token][k].messages[1].text \in
                            {NOT_RELATED_MESSAGE, UNSUPPORTED_MESSAGE})
    /\ [][\A i \in DOMAIN execs :
            Rejected(execs[i]) =>
                /\ execs'[i].status = "running" =>
                        /\ Rejected(execs'[i])
                        /\ execs'[i].verdict = execs[i].verdict
                /\ execs'[i].status = "completed" => execs'[i].result = "false"
                /\ execs'[i].result # "true"]_vars

C9_Witness ==
    /\ variant = "agent"
    /\ Len(execs) = 1
    /\ execs[1].status = "completed"
    /\ execs[1].result = "false"
    /\ Len(delivered[execs[1].reply_token]) = 1
    /\ delivered[execs[1].reply_token][1].messages[1].text = UNSUPPORTED_MESSAGE

(* C10: once an accepted input has its answer, the reply activity's text   *)
(* is the agent's final output unchanged, every request sent carries the   *)
(* reply_token and the quote_token of the workflow's request and that      *)
(* text, and when the reply succeeds the execution returns success = true. *)
C10_AcceptedRelaysAgentOutput ==
    /\ [](\A i \in DOMAIN execs :
            LET e == execs[i]
                request == [reply_token |-> e.reply_token,
                            messages |-> <<TextMessage(e.quote_token, e.output)>>]
            IN (Accepted(e) /\ e.pc = "replying") =>
                    /\ e.output \in Outputs
                    /\ e.act.name = "reply_text"
                    /\ e.act.input.message = e.output
                    /\ e.act.input.reply_token = e.reply_token
                    /\ e.act.input.quote_token = e.quote_token
                    /\ e.ret = "true"
                    /\ e.sends > 0 => e.lastSent = request
                    /\ \A k \in DOMAIN delivered[e.reply_token] :
                            delivered[e.reply_token][k] = request)
    /\ [][\A i \in DOMAIN execs :
            (Accepted(execs[i]) /\ execs[i].pc = "replying") =>
                /\ execs'[i].status = "running" => execs'[i].output = execs[i].output
                /\ execs'[i].status = "completed" => execs'[i].result = "true"
                /\ execs'[i].result # "false"]_vars

C10_Witness ==
    /\ variant = "agent"
    /\ Len(execs) = 1
    /\ execs[1].status = "completed"
    /\ execs[1].result = "true"
    /\ delivered[execs[1].reply_token] =
            <<[reply_token |-> reply_token_of(1),
               messages |-> <<TextMessage(quote_token_of(1), "final output b")>>]>>

-----------------------------------------------------------------------------
(* Properties of the home-automation activities                            *)

Member(payload, name) ==
    LET k == CHOOSE k \in DOMAIN payload : payload[k].name = name
    IN payload[k].value

IsControl(call) == call.op = "remote_control_air_conditioner"

(* C11: a climate command with a temperature t in 16..32 that the broker   *)
(* accepts is published with Temp = t and Power = "On" when power_on is    *)
(* true and "Off" otherwise; a command with a temperature outside 16..32   *)
(* is rejected with a validation error and publishes nothing.  Every       *)
(* published command has its temperature within 16..32.                     *)
C11_ClimateCommand ==
    /\ [](\A k \in DOMAIN published :
            /\ Member(published[k].payload, "Temp") \in 16..32
            /\ Member(published[k].payload, "Power") \in {"On", "Off"})
    /\ []((IsControl(ha) /\ ha.temperature \notin 16..32) =>
                ha.result = "ValidationError")
    /\ []((IsControl(ha) /\ ha.result = "None") =>
            /\ ha.temperature \in 16..32
            /\ published # <<>>
            /\ LET command == published[Len(published)]
               IN /\ Member(command.payload, "Temp") = ha.temperature
                  /\ Member(command.payload, "Power") =
                        (IF ha.power_on THEN "On" ELSE "Off")
                  /\ command.topic = "tasmota/cmnd/IRHVAC")
    /\ [][(IsControl(ha') /\ ha'.result # "None") => published' = published]_vars

C11_Witness ==
    /\ IsControl(ha)
    /\ ha.result = "None"
    /\ ~ha.power_on
    /\ ha.temperature = 32
    /\ Len(published) = 1
    /\ Member(published[1].payload, "Power") = "Off"

-----------------------------------------------------------------------------
(* Properties of the keyword-table workflow                                *)

PinguMessages == {S_Pingu_spaced, S_PINGU_padded}

IsPingu(message) == message \in PinguMessages

SixChoices ==
    << <<"u53eb">>, <<"u9a5a", "u8a1d">>, <<"u751f", "u6c23">>,
       <<"u5929", "u5a66", "u7f85">>, <<"u751c", "u751c", "u5708">>,
       <<"u96de", "u6392">> >>

Labels(request) ==
    [k \in DOMAIN request.messages[1].quick_reply |->
        request.messages[1].quick_reply[k].label]

(* C12: in the keyword-table workflow a message that is "pingu" after      *)
(* strip, lower and the removal of spaces (padded or spaced, in either     *)
(* case; a tab inside the word is not removed) makes the first step schedule    *)
(* one quick-reply whose choices are the six of the table, in their order; *)
(* that is the only activity invocation, every request sent carries these  *)
(* six buttons, and when the reply succeeds the workflow returns True.     *)
C12_PinguQuickReply ==
    /\ [](\A m \in Messages :
            (Normalize(m) = <<"p", "i", "n", "g", "u">>) <=> IsPingu(m))
    /\ [](\A i \in DOMAIN execs :
            LET e == execs[i]
            IN (variant = "keyword" /\ IsPingu(e.message) /\ e.status = "running"
                    /\ e.pc # "start") =>
                /\ e.pc = "replying"
                /\ e.act.name = "reply_quick_reply"
                /\ e.act.input.quick_messages = SixChoices
                /\ e.invocations = 1
                /\ e.ret = "true"
                /\ e.sends > 0 => Labels(e.lastSent) = SixChoices
                /\ \A k \in DOMAIN delivered[e.reply_token] :
                        Labels(delivered[e.reply_token][k]) = SixChoices)
    /\ [][\A i \in DOMAIN execs :
            (variant = "keyword" /\ IsPingu(execs[i].message)) =>
                /\ (execs[i].pc = "start" /\ execs'[i] # execs[i]) =>
                        execs'[i].pc = "replying"
                /\ (execs[i].status = "running" /\ execs'[i].status = "completed") =>
                        /\ execs[i].pc = "replying"
                        /\ execs'[i].result = "true"
                        /\ Len(delivered[execs[i].reply_token]) = 1
                /\ execs'[i].result # "false"]_vars

C12_Witness ==
    /\ variant = "keyword"
    /\ Len(execs) = 1
    /\ execs[1].message = S_PINGU_padded
    /\ execs[1].status = "completed"
    /\ execs[1].result = "true"
    /\ Len(delivered[execs[1].reply_token]) = 1
    /\ Labels(delivered[execs[1].reply_token][1]) = SixChoices

UnmatchedMessages == {S_hello, S_noot_noot, S_pin_tab_gu}

(* C13: in the keyword-table workflow a message whose normalized text is   *)
(* no keyword of the table ("hi", "noot noot" once its space is removed,   *)
(* "pin<tab>gu") ends the workflow in its first step with success = false: *)
(* no activity is ever scheduled, nothing is sent and the reply token      *)
(* stays unused.                                                            *)
C13_UnmatchedReturnsFalse ==
    /\ [](\A m \in Messages : (MatchRow(m) = 0) <=> (m \in UnmatchedMessages))
    /\ [](\A i \in DOMAIN execs :
            LET e == execs[i]
            IN (variant = "keyword" /\ e.message \in UnmatchedMessages) =>
                /\ e.act = NoAct
                /\ e.invocations = 0
                /\ e.sends = 0
                /\ delivered[e.reply_token] = <<>>
                /\ \/ e.status = "running" /\ e.pc = "start"
                   \/ e.status = "completed" /\ e.result = "false")
    /\ [][\A i \in DOMAIN execs :
            (/\ variant = "keyword"
             /\ execs[i].message \in UnmatchedMessages
             /\ execs'[i] # execs[i]) =>
                /\ execs[i].pc = "start"
                /\ execs'[i].status = "completed"
                /\ execs'[i].result = "false"]_vars

C13_Witness ==
    /\ variant = "keyword"
    /\ Len(execs) = 1
    /\ execs[1].message = S_noot_noot
    /\ execs[1].status = "completed"
    /\ execs[1].result = "false"
    /\ delivered[execs[1].reply_token] = <<>>

-----------------------------------------------------------------------------
(* Properties of the binary-sensor reads                                   *)

IsDoorRead(call) == call.op = "check_1f_inner_door_status"
IsPresenceRead(call) == call.op = "check_2f_bedroom_presence_status"

C15_PresenceMapping ==
    IsPresenceRead(ha) =>
        /\ ha.state = "on" => ha.result = "yes"
        /\ ha.state = "off" => ha.result = "no"
        /\ ha.state \notin {"on", "off"} => ha.result = ha.state

C15_Witness ==
    /\ IsPresenceRead(ha)
    /\ ha.state = "on"
    /\ ha.result = "yes"

-----------------------------------------------------------------------------
(* Properties of the webhook response                                      *)

LoopOver == req.state = "processing" /\ req.idx > Len(req.events)

(* C16: a request with a valid signature whose loop over the batch is over *)
(* (every start of the batch issued, or none because no event qualifies)   *)
(* can respond at once, whatever the state of the executions, running ones *)
(* included; the response is 202 with body "ACCEPTED", it is given only    *)
(* when the loop is over, and the step that gives it changes no execution. *)
(* A valid batch without text-message events is always answered 202.       *)
C16_AcceptedWithoutWaiting ==
    /\ [](LoopOver => (req.valid /\ ENABLED CallbackReturn))
    /\ []((req.state = "done" /\ req.response = 202) =>
            /\ req.valid
            /\ req.body = "ACCEPTED"
            /\ req.nstarts = req.ntext)
    /\ []((req.state = "done" /\ req.valid /\ req.ntext = 0) =>
            (req.response = 202 /\ req.body = "ACCEPTED"))
    /\ [][(req.state = "processing" /\ req'.state = "done") =>
            /\ LoopOver => (req'.response = 202 /\ req'.body = "ACCEPTED")
            /\ req'.response = 202 => (LoopOver /\ execs' = execs)]_vars

C16_Witness ==
    /\ req.state = "done"
    /\ req.response = 202
    /\ req.body = "ACCEPTED"
    /\ req.nstarts = 2
    /\ Len(execs) = 2
    /\ \A i \in DOMAIN execs : execs[i].status = "running" /\ execs[i].pc = "start"

-----------------------------------------------------------------------------
(* Properties of the quick-reply request                                   *)

Buttons(request) == request.messages[1].quick_reply

ButtonsAre(request, quick_messages) ==
    /\ Len(request.messages) = 1
    /\ Len(Buttons(request)) = Len(quick_messages)
    /\ \A k \in 1..Len(quick_messages) :
            /\ Buttons(request)[k].label = quick_messages[k]
            /\ Buttons(request)[k].text = quick_messages[k]

(* C17: the request built for a quick-reply with choices c1..cn has one    *)
(* message with exactly n buttons, in the order of the choices, and button *)
(* i has label ci and text ci; so has every request the provider accepted. *)
C17_ButtonsMirrorChoices ==
    /\ sent.result # "none" =>
            /\ ButtonsAre(sent.request, sent.input.quick_messages)
            /\ sent.request.reply_token = sent.input.reply_token
    /\ \A t \in ReplyTokens : \A k \in DOMAIN delivered[t] :
            \A b \in DOMAIN Buttons(delivered[t][k]) :
                /\ Buttons(delivered[t][k])[b].label \in Choices
                /\ Buttons(delivered[t][k])[b].text = Buttons(delivered[t][k])[b].label

C17_Witness ==
    /\ sent.result = "ok"
    /\ sent.input.quick_messages = << <<"b", "c">>, <<"a">>, <<"b", "c">> >>
    /\ Len(Buttons(sent.request)) = 3
    /\ Buttons(sent.request)[1] = [label |-> <<"b", "c">>, text |-> <<"b", "c">>]
    /\ Buttons(sent.request)[2] = [label |-> <<"a">>, text |-> <<"a">>]

-----------------------------------------------------------------------------
(* Properties of the order of the steps of one execution                   *)

StepRank(pc) ==
    CASE pc = "start" -> 0
      [] pc = "agent" -> 1
      [] pc = "replying" -> 2
      [] OTHER -> 3

IsToolCall(e) == e.act.name = "remote_control_air_conditioner"

(* C18: in the guardrail/agent workflow the steps of an execution follow   *)
(* one another: the first step is the guardrail check, and the agent has   *)
(* run only after it finished with an accepting verdict; a device-control  *)
(* call is in progress only during the agent run; the reply is scheduled   *)
(* only in the reply step, after the agent run ended with its output (or   *)
(* after a rejection, without agent); the agent run does not end while a   *)
(* tool call is in progress, the steps never go back, and an execution has *)
(* at most one activity in progress.                                        *)
C18_StepsSequential ==
    /\ [](\A i \in DOMAIN execs :
            LET e == execs[i]
            IN (variant = "agent" /\ e.status = "running") =>
                /\ e.pc = "start" => (~e.checked /\ ~e.agentRan /\ e.act = NoAct)
                /\ e.pc = "agent" => (e.checked /\ ~Rejects(e.verdict))
                /\ e.agentRan => (e.checked /\ ~Rejects(e.verdict))
                /\ e.toolCalls > 0 => e.agentRan
                /\ IsToolCall(e) => (e.pc = "agent" /\ e.output = "")
                /\ e.act.name \in ReplyActivities =>
                        /\ e.pc = "replying"
                        /\ e.checked
                        /\ ~Rejects(e.verdict) => (e.agentRan /\ e.output \in Outputs)
                /\ e.pc = "replying" => e.act.name = "reply_text"
                /\ e.sends > 0 => e.pc = "replying")
    /\ [][\A i \in DOMAIN execs :
            (variant = "agent" /\ execs[i].status = "running") =>
                /\ StepRank(execs'[i].pc) >= StepRank(execs[i].pc)
                /\ (execs[i].pc = "start" /\ execs'[i] # execs[i]) =>
                        (execs'[i].checked /\ execs'[i].pc \in {"agent", "replying"})
                /\ (execs[i].pc = "agent" /\ execs[i].act # NoAct
                        /\ execs'[i].status = "running") => execs'[i].pc = "agent"]_vars

C18_Witness ==
    /\ variant = "agent"
    /\ Len(execs) = 1
    /\ execs[1].status = "running"
    /\ execs[1].pc = "replying"
    /\ execs[1].toolCalls = 1
    /\ execs[1].act.name = "reply_text"
    /\ execs[1].sends = 1
    /\ Len(published) = 1

-----------------------------------------------------------------------------
(* Properties of the end of an execution                                   *)

Terminal(e) == e.status \in {"completed", "failed", "terminated"}

Started(i) == i \in DOMAIN execs

(* C19: every started execution eventually reaches a terminal outcome,     *)
(* given that its steps are taken and its activity attempts end: completed *)
(* with True or False, failed after ApiException or after the third        *)
(* attempt of a retryable error, or terminated by a later start of the     *)
(* same id.  A terminal execution keeps its status, result and failure,    *)
(* starts no activity and sends nothing; the only thing that can still     *)
(* happen to it is the end of an attempt that was already in progress when *)
(* it was terminated, whose result is dropped.                              *)
C19_ReachesTerminalOutcome ==
    /\ \A i \in 1..MaxExecs : Started(i) ~> (Started(i) /\ Terminal(execs[i]))
    /\ [](\A i \in DOMAIN execs :
            LET e == execs[i]
            IN /\ e.status \in {"running", "completed", "failed", "terminated"}
               /\ e.status = "completed" => e.result \in {"true", "false"}
               /\ e.status = "failed" =>
                    \/ e.failure.error = "ApiException"
                    \/ e.failure.error = "TimeoutError" /\ e.failure.attempt = 3
               /\ e.status = "terminated" =>
                    \E j \in DOMAIN execs : j > i /\ execs[j].id = e.id
               /\ Terminal(e) =>
                    /\ e.pc = "done"
                    /\ e.act.phase # "scheduled"
                    /\ e.act # NoAct => e.status = "terminated")
    /\ [][\A i \in DOMAIN execs :
            Terminal(execs[i]) =>
                /\ [execs'[i] EXCEPT !.act = NoAct] = [execs[i] EXCEPT !.act = NoAct]
                /\ execs'[i].act \in {execs[i].act, NoAct}
                /\ delivered' # delivered =>
                        \E j \in DOMAIN execs : j # i /\ execs'[j].sends > execs[j].sends]_vars

C19_Witness ==
    /\ Len(execs) = 2
    /\ execs[1].status = "terminated"
    /\ execs[1].act.phase = "inflight"
    /\ execs[2].status = "failed"
    /\ execs[2].failure.error = "ApiException"

-----------------------------------------------------------------------------
(* Properties of the shutdown                                              *)

ShutdownOver == life.pc \in {"exited", "raised"}

(* C20 as stated: the worker task is cancelled by force only after the     *)
(* graceful phases, so a cancellation has been requested only once the     *)
(* worker has been shut down.                                               *)
C20_CancelAfterGracefulPhases == life.cancel_requested => life.worker_shutdown

(* C20, amended: shutdown begins when the application has stopped serving  *)
(* and starts with the cancellation of the worker task, then waits for the *)
(* task to end; worker.shutdown() is called only after that, and only when *)
(* the task ended by that cancellation.  Once shutdown is over, and        *)
(* already once the wait is over, no worker task is running.                *)
C20_CancelThenWorkerShutdown ==
    /\ [](life.cancel_requested => life.pc # "serving")
    /\ [](life.worker_shutdown => (life.task = "cancelled" /\ life.cancel_requested))
    /\ [](life.pc \in {"worker_shutdown", "mqtt_loop_stop", "line_close"} =>
                life.task = "cancelled")
    /\ [](ShutdownOver => life.task \in {"cancelled", "finished", "failed"})
    /\ [][(life.pc = "serving" /\ life'.pc # "serving") =>
            /\ life'.pc = "await_task"
            /\ life'.cancel_requested = (life.task = "running")
            /\ ~life'.worker_shutdown]_vars
    /\ [][(~life.worker_shutdown /\ life'.worker_shutdown) =>
            (life.pc = "worker_shutdown" /\ life.task = "cancelled")]_vars

C20_Witness ==
    /\ life.pc = "exited"
    /\ life.task = "cancelled"
    /\ life.worker_shutdown
    /\ Len(execs) = 1
    /\ execs[1].status = "running"
    /\ execs[1].act.phase = "scheduled"

-----------------------------------------------------------------------------
(* Properties of the keyword table                                         *)

RowsOf(literal) == {r \in DOMAIN KeywordTable : RowMatches(r, literal)}

HasSpace(literal) == \E k \in DOMAIN literal : literal[k] = " "

FirstStep(i) ==
    /\ i \in DOMAIN execs
    /\ variant = "keyword"
    /\ execs[i].status = "running"
    /\ execs[i].pc = "start"
    /\ execs'[i] # execs[i]

TriggersRow(i, r) ==
    /\ execs'[i].status = "running"
    /\ execs'[i].pc = "replying"
    /\ execs'[i].act.name = KeywordTable[r].activity
    /\ execs'[i].act.input = RowInput(execs[i], r)
    /\ execs'[i].act.phase = "scheduled"

KeywordsOf(r) == {KeywordTable[r].keywords[k] : k \in DOMAIN KeywordTable[r].keywords}

(* The row a table read from its last row to its first would choose. *)
MatchRowReversed(message) ==
    LET hits == RowsOf(Normalize(message))
    IN IF hits = {} THEN 0 ELSE CHOOSE r \in hits : \A q \in hits : q <= r

(* C22: the keyword sets of two different rows share no literal, so at     *)
(* most one row matches the normalized text of a message and the row       *)
(* chosen is the same whichever end the table is read from; an execution   *)
(* schedules an activity only in its first step, one quick-reply or one    *)
(* audio reply, and never a second one.                                     *)
C22_RowsDisjointOneReply ==
    /\ [](\A r1, r2 \in DOMAIN KeywordTable :
            r1 # r2 => KeywordsOf(r1) \cap KeywordsOf(r2) = {})
    /\ [](\A i \in DOMAIN execs :
            /\ Cardinality(RowsOf(Normalize(execs[i].message))) <= 1
            /\ MatchRow(execs[i].message) = MatchRowReversed(execs[i].message)
            /\ execs[i].invocations <= 1
            /\ execs[i].act.name \in {"none", "reply_quick_reply", "reply_audio"}
            /\ execs[i].pc = "start" => execs[i].act = NoAct /\ execs[i].invocations = 0)
    /\ [][\A i \in DOMAIN execs :
            /\ execs'[i].pc = "start" => execs[i].pc = "start"
            /\ (execs'[i].act.name # "none" /\ execs[i].act.name # "none") =>
                    /\ execs'[i].act.name = execs[i].act.name
                    /\ execs'[i].act.input = execs[i].act.input
                    /\ execs'[i].invocations = execs[i].invocations
            /\ (execs'[i].act.name # "none" /\ execs[i].act.name = "none") =>
                    /\ execs[i].pc = "start"
                    /\ execs'[i].invocations = 1]_vars

C22_Witness ==
    /\ variant = "keyword"
    /\ Len(execs) = 1
    /\ execs[1].message = <<"u6c23">>
    /\ MatchRow(execs[1].message) = 4
    /\ execs[1].status = "completed"
    /\ execs[1].result = "true"
    /\ Len(delivered[execs[1].reply_token]) = 1
    /\ delivered[execs[1].reply_token][1].messages[1].type = "audio"

-----------------------------------------------------------------------------
(* Properties of the result of the keyword-table workflow                  *)

ReplySucceeds(e) ==
    /\ e.status = "running"
    /\ e.act.name \in ReplyActivities
    /\ e.act.phase = "inflight"
    /\ e.act.resp = "ok"

(* C23: in the keyword-table workflow the result True is reported only in  *)
(* the step in which an attempt of the reply activity returns              *)
(* successfully, so the provider has accepted the reply by then.  An       *)
(* execution whose reply activity fails for good, with a non-retryable     *)
(* error or at its third attempt, is failed, has no result, and stays so.  *)
C23_TrueOnlyAfterReply ==
    /\ [](\A i \in DOMAIN execs :
            LET e == execs[i]
            IN /\ e.result = "true" =>
                    /\ e.status = "completed"
                    /\ Len(delivered[e.reply_token]) = 1
               /\ e.status = "failed" =>
                    /\ e.result = "none"
                    /\ \/ e.failure.error \in non_retryable_error_types
                       \/ e.failure.attempt = maximum_attempts)
    /\ [][\A i \in DOMAIN execs :
            /\ (execs[i].result # "true" /\ execs'[i].result = "true") =>
                    ReplySucceeds(execs[i])
            /\ (ReplySucceeds(execs[i]) /\ execs'[i] # execs[i]) =>
                    execs'[i].result = "true"
            /\ (execs[i].status = "running" /\ execs[i].act.phase = "inflight"
                    /\ execs[i].act.resp # "ok" /\ execs'[i] # execs[i]
                    /\ ~ShouldRetry(execs[i].act.attempt, execs[i].act.resp)) =>
                    execs'[i].status = "failed"
            /\ execs[i].status = "failed" =>
                    /\ execs'[i].status = "failed"
                    /\ execs'[i].result = "none"]_vars

C23_Witness ==
    /\ variant = "keyword"
    /\ Len(execs) = 1
    /\ execs[1].message = <<"n", "o", "o", "t">>
    /\ execs[1].status = "failed"
    /\ execs[1].failure.attempt = maximum_attempts
    /\ execs[1].failure.error # "ApiException"
    /\ execs[1].result = "none"

-----------------------------------------------------------------------------
(* Properties of a start call that raises                                  *)

StartRaises ==
    /\ req.state = "processing"
    /\ req'.state = "done"
    /\ req'.error = "RPCError"

EventsAfter == SubSeq(req.events, req.idx + 1, Len(req.events))

(* C24: when a start call raises, the request ends at once with status 500 *)
(* and not 202; the executions started for the earlier events of the batch *)
(* are left as they are, none is cancelled or removed; the calls issued    *)
(* are those for the events up to the failing one, so none of the text     *)
(* events after it gets a start, and no execution is started afterwards    *)
(* for this request.                                                        *)
C24_StartRaisesEndsRequest ==
    /\ [](req.state = "processing" =>
            \A k \in DOMAIN req.starts : req.starts[k].outcome = "started")
    /\ [](req.error = "RPCError" =>
            /\ req.state = "done"
            /\ req.response = HTTP_500_INTERNAL_SERVER_ERROR
            /\ req.response # HTTP_202_ACCEPTED
            /\ req.body # "ACCEPTED"
            /\ req.nstarts <= req.ntext)
    /\ [][StartRaises =>
            /\ execs' = execs
            /\ \A k \in DOMAIN req.starts :
                    \E i \in DOMAIN execs' : execs'[i].id = req.starts[k].id
            /\ req'.nstarts = Len(req.starts) + 1
            /\ req'.nstarts =
                    Len(TextMessageEventsOf(SubSeq(req.events, 1, req.idx)))
            /\ req'.ntext - req'.nstarts = Len(TextMessageEventsOf(EventsAfter))]_vars
    /\ [][(req.state = "done" /\ nreq' = nreq) =>
            (req' = req /\ Len(execs') = Len(execs))]_vars

C24_Witness ==
    /\ req.state = "done"
    /\ req.error = "RPCError"
    /\ req.response = 500
    /\ req.ntext = 3
    /\ req.nstarts = 2
    /\ Len(execs) = 1
    /\ execs[1].status = "completed"
    /\ execs[1].result = "true"

-----------------------------------------------------------------------------
(* Properties of the release of the clients at shutdown                    *)

Released ==
    /\ life.worker_shutdown
    /\ ~life.mqtt_loop
    /\ life.mqtt = "disconnected"
    /\ life.line = "closed"

NothingReleased ==
    /\ ~life.worker_shutdown
    /\ life.mqtt_loop
    /\ life.mqtt = "connected"
    /\ life.line = "open"

====
